---- MODULE Spec2Model ----
(***************************************************************************)
(* VerticalScrollController of src/src/ts/index.ts: a three-page window    *)
(* (previousPage, currentPage, nextPage) over a paged data source, driven  *)
(* by a tracker that is dragged or wheeled.                                *)
(*                                                                         *)
(* One step of the model is one task of the JavaScript event loop: an      *)
(* event handler or a settled fetch, run together with the microtasks it   *)
(* queues, i.e. until the async call it runs either awaits a fetch that is *)
(* still pending or ends.  A requestPageIfExists that takes the "absent"   *)
(* branch awaits nothing but a microtask, so no other task can run before  *)
(* its caller continues.                                                   *)
(*                                                                         *)
(* Numbers.  A JavaScript number is modelled as an exact fraction <<n, d>> *)
(* in lowest terms with d >= 0; d = 0 gives the three non-finite values    *)
(* Infinity <<1,0>>, -Infinity <<-1,0>> and NaN <<0,0>>.  The rounding of  *)
(* IEEE doubles is not modelled, and -0 is identified with 0 (every zero   *)
(* divisor of the program is +0).                                          *)
(***************************************************************************)
EXTENDS Integers, Sequences, FiniteSets, TLC

----------------------------------------------------------------------------
(* JavaScript numbers *)

Abs(i) == IF i < 0 THEN -i ELSE i

Sgn(i) == IF i < 0 THEN -1 ELSE IF i > 0 THEN 1 ELSE 0

RECURSIVE Gcd(_, _)
Gcd(a, b) == IF b = 0 THEN a ELSE Gcd(b, a % b)

\* the fraction n/d in lowest terms; n/0 is Infinity, -Infinity or NaN
Norm(n, d) ==
    IF d = 0 THEN <<Sgn(n), 0>>
    ELSE LET g == Gcd(Abs(n), Abs(d))
         IN  <<(Sgn(d) * n) \div g, Abs(d) \div g>>

Num(i) == <<i, 1>>
NaN == <<0, 0>>
Infinity == <<1, 0>>
IsNaN(x) == x = NaN
IsFinite(x) == x[2] # 0

Mul(x, y) == Norm(x[1] * y[1], x[2] * y[2])

Div(x, y) ==
    IF y[1] = 0 THEN Norm(x[1] * y[2], 0)
    ELSE Norm(x[1] * y[2] * Sgn(y[1]), x[2] * Abs(y[1]))

Add(x, y) ==
    IF IsFinite(x) /\ IsFinite(y) THEN Norm(x[1] * y[2] + y[1] * x[2], x[2] * y[2])
    ELSE IF IsNaN(x) \/ IsNaN(y) THEN NaN
    ELSE IF IsFinite(y) THEN x
    ELSE IF IsFinite(x) THEN y
    ELSE IF x = y THEN x ELSE NaN

Neg(x) == <<-x[1], x[2]>>

Sub(x, y) == Add(x, Neg(y))

\* x < y, x >= y and x == y of JavaScript: false when an operand is NaN
Lt(x, y) ==
    IF IsNaN(x) \/ IsNaN(y) THEN FALSE
    ELSE IF ~IsFinite(x) /\ ~IsFinite(y) THEN x[1] < y[1]
    ELSE x[1] * y[2] < y[1] * x[2]

Ge(x, y) == ~IsNaN(x) /\ ~IsNaN(y) /\ ~Lt(x, y)

Le(x, y) == Ge(y, x)

Eq(x, y) == ~IsNaN(x) /\ ~IsNaN(y) /\ x = y

\* Math.floor and Math.ceil
Floor(x) == IF IsFinite(x) THEN Num(x[1] \div x[2]) ELSE x

Ceil(x) == IF IsFinite(x) THEN Num(-((-x[1]) \div x[2])) ELSE x

\* the integer part of x, rounded towards zero
Trunc(x) == IF x[1] < 0 THEN Ceil(x) ELSE Floor(x)

\* x % y of JavaScript: the remainder has the sign of x
Rem(x, y) ==
    IF ~IsFinite(x) \/ IsNaN(y) \/ y = Num(0) THEN NaN
    ELSE IF ~IsFinite(y) THEN x
    ELSE Sub(x, Mul(y, Trunc(Div(x, y))))

----------------------------------------------------------------------------
(* Bounds of the model and the inputs it draws from *)

\* the number of tasks of one behaviour that the environment chooses: pointer
\* events, wheel events, changes of the data source's total, failed fetches
MaxEvents == 3

\* the number of scrollTo calls of one behaviour that leave the current page
\* while an async call awaits a fetch
MaxOverlaps == 1

\* scrollable.clientHeight
ClientHeights == {60}

\* scrollable.clientHeight of a scrollable that is not laid out (0) or lower
\* than MIN_TRACKER_HEIGHT
SmallClientHeights == {0, 20}

\* elem.clientHeight as measured by the height probe
ProbeHeights == {0, 3}

\* the values the data source's total takes
Totals == {5, 25, 100}

\* evt.pageY of the pointerdown events
DownYs == {0}

\* evt.pageY of the pointermove events
PageYs == {0, 5, 8, 30}

\* evt.deltaY of the wheel events
DeltaYs == {-10, 10}

----------------------------------------------------------------------------
(* Program constants and values *)

MIN_TRACKER_HEIGHT == 30

overlappingElements == 10

DOM_DELTA_PIXEL == 0
DOM_DELTA_LINE == 1
DOM_DELTA_PAGE == 2

DeltaModes == {DOM_DELTA_PIXEL, DOM_DELTA_LINE, DOM_DELTA_PAGE}

\* the value of a Page<T> | undefined slot that holds no page
Undefined == [undefined |-> TRUE]

\* The items of a page and the rows of the content are runs of consecutive
\* item numbers (ListItemImpl.num, "Element num"): getPage fills a page with
\* the numbers from startPosition on, and fillContent adds a row per item in
\* the page's order.  The run of `length` numbers from `first`:
Run(first, length) == [first |-> first, length |-> length]

\* the sequence that a run stands for
Sequence(run) == [i \in 1..run.length |-> run.first + i - 1]

\* interface Page
Page(startPosition, numTotalItems, items) ==
    [startPosition |-> startPosition, numTotalItems |-> numTotalItems, items |-> items]

\* a promise of the data source that is never settled by it
Never == [never |-> TRUE]

VARIABLES
    this,              \* the fields of the VerticalScrollController
    dom,               \* the host surface: scrollable, content, tracker, window
    totalNumberItems,  \* the data source's total
    calls,             \* the async calls awaiting a fetch, oldest first
    initialize,        \* the position and outcome of initialize()
    hung,              \* the thread is in a loop that does not end
    events,            \* the tasks chosen by the environment so far
    overlaps,          \* the calls begun during another call so far
    last,              \* what the latest task did
    pressed,           \* a pointer that went down on the tracker is still down
    failed             \* a fetch has failed so far

vars == <<this, dom, totalNumberItems, calls, initialize, hung, events, overlaps, last,
          pressed, failed>>

----------------------------------------------------------------------------
(* The data source *)

\* getPage: what the promise it returns will resolve to, fixed when it is called
GetPage(startPosition, numberItems, total) ==
    IF startPosition >= total THEN Never
    ELSE LET n == IF Lt(Num(total - startPosition), numberItems)
                  THEN total - startPosition ELSE numberItems[1]
         IN  Page(startPosition, total, Run(startPosition, n))

\* getPage's loop runs numberItems times: it does not end for Infinity
GetPageLoops(startPosition, numberItems, total) ==
    startPosition < total /\ numberItems = Infinity

----------------------------------------------------------------------------
(* The controller's methods.  A method takes s: the controller s.this, the  *)
(* host surface s.dom and s.log, the calls of requestPageIfExists made by    *)
(* the running task.  It yields s as it leaves it and `out`: how it stopped. *)

Return(s) == [s |-> s, out |-> [kind |-> "return"]]

Throw(s, error) == [s |-> s, out |-> [kind |-> "throw", error |-> error]]

Await(s, fn, pc, page, scrollY, request) ==
    [s |-> s,
     out |-> [kind |-> "await", fn |-> fn, pc |-> pc, page |-> page,
              scrollY |-> scrollY, request |-> request]]

\* a variant of the existence test of lines 205-208 that takes a page starting
\* exactly at the total as absent
PageExists_strict(t, page) ==
    /\ Ge(page, Num(0))
    /\ Lt(Mul(Num(overlappingElements), page), Num(t.numTotalItems))

\* requestPageIfExists, lines 205-208: the page exists
PageExists(t, page) ==
    /\ Ge(page, Num(0))
    /\ Le(Mul(Num(overlappingElements), page), Num(t.numTotalItems))

\* a variant of lines 209-210 that asks every page for the same number of items
NumberItems_oneStride(t, page) ==
    Add(t.numVisibleItems, Num(overlappingElements))

\* requestPageIfExists, lines 209-210: the number of items to fetch
NumberItems(t, page) ==
    LET num == Add(t.numVisibleItems, Num(overlappingElements))
    IN  IF Lt(Num(0), page) THEN Add(num, Num(overlappingElements)) ELSE num

\* requestPageIfExists, line 213: the position to fetch from
StartOfPage(page) == Mul(page, Num(overlappingElements))[1]

\* requestPageIfExists up to its await: whether it fetches (exists) and what
\* (request), and what it returns when it does not fetch (returned).  The log
\* entry of the call holds the page asked for, the cached total the call found
\* (numTotalItems) and, when it returns without a fetch, the one it left.
RequestPageIfExists(s, page) ==
    LET exists == PageExists(s.this, page)
        request == [page |-> page,
                    startPosition |-> StartOfPage(page),
                    numberItems |-> NumberItems(s.this, page)]
        entry == IF exists
                 THEN [page |-> page, numTotalItems |-> s.this.numTotalItems,
                       fetch |-> TRUE, startPosition |-> request.startPosition,
                       numberItems |-> request.numberItems]
                 ELSE [page |-> page, numTotalItems |-> s.this.numTotalItems,
                       fetch |-> FALSE, left |-> s.this.numTotalItems,
                       returned |-> Undefined]
    IN  [exists |-> exists, request |-> request, returned |-> Undefined,
         s |-> [s EXCEPT !.log = Append(@, entry)]]

\* requestPageIfExists, lines 216-217: the fetched page p arrives and is returned
PageArrived(s, request, p) ==
    [s EXCEPT !.this.numTotalItems = p.numTotalItems,
              !.log = Append(@, [page |-> request.page, returned |-> p])]

\* fillContent
FillContent(s) ==
    IF s.this.currentPage = Undefined THEN s
    ELSE [s EXCEPT !.dom.content = s.this.currentPage.items]

\* calculateTrackerHeight
CalculateTrackerHeight(s) ==
    LET totalHeight == Mul(Num(s.this.rowHeight), Num(s.this.currentPage.numTotalItems))
        visibleHeight == Num(s.dom.clientHeight)
        normalizeFactor == Div(visibleHeight, totalHeight)
        trackerHeight == Mul(normalizeFactor, visibleHeight)
    IN  IF Ge(normalizeFactor, Num(1)) THEN Num(0)
        ELSE IF Lt(trackerHeight, Num(MIN_TRACKER_HEIGHT)) THEN Num(MIN_TRACKER_HEIGHT)
        ELSE trackerHeight

\* scrollY % (this.overlappingElements * this.rowHeight)
TopOf(t, scrollY) == Rem(scrollY, Mul(Num(overlappingElements), Num(t.rowHeight)))

\* this.scrollable.scrollTo({top: top}): dom.scrollTop is the top asked for
ScrollableScrollTo(s, top) == [s EXCEPT !.dom.scrollTop = top]

\* tracker.style.height = `${h}px` and tracker.style.marginTop = `${m}px`: the
\* style keeps its value when the text is no length ("NaNpx", "Infinitypx",
\* a negative height)
SetHeight(s, h) ==
    IF IsFinite(h) /\ h[1] >= 0 THEN [s EXCEPT !.dom.height = h] ELSE s

SetMarginTop(s, m) ==
    IF IsFinite(m) THEN [s EXCEPT !.dom.marginTop = m] ELSE s

\* updatePages, line 190 after the await
UpdatePagesAfterPrevious(s, p) ==
    Return([s EXCEPT !.this.previousPage = p])

\* updatePages, line 190
UpdatePagesPrevious(s, page, scrollY) ==
    LET r == RequestPageIfExists(s, Sub(page, Num(1)))
    IN  IF r.exists
        THEN Await(r.s, "updatePages", "previous", page, scrollY, r.request)
        ELSE UpdatePagesAfterPrevious(r.s, r.returned)

\* updatePages, lines 189-190 after the await of line 189
UpdatePagesAfterNext(s, page, scrollY, p) ==
    UpdatePagesPrevious([s EXCEPT !.this.nextPage = p], page, scrollY)

\* a variant of lines 189-190 that goes on to the fetch of previous at once
UpdatePagesNext_previous(s, page, scrollY) ==
    UpdatePagesPrevious(s, page, scrollY)

\* updatePages, line 189
UpdatePagesNext(s, page, scrollY) ==
    LET r == RequestPageIfExists(s, Add(page, Num(1)))
    IN  IF r.exists
        THEN Await(r.s, "updatePages", "next", page, scrollY, r.request)
        ELSE UpdatePagesAfterNext(r.s, page, scrollY, r.returned)

\* updatePages, lines 177-187: the tracker's geometry and the scroll offset
UpdateGeometry(s, scrollY) ==
    LET availableHeight == Num(s.dom.clientHeight)
        trackerHeight == CalculateTrackerHeight(s)
        trackableHeight == Sub(availableHeight, trackerHeight)
        totalHeight == Mul(Num(s.this.rowHeight), Num(s.this.currentPage.numTotalItems))
        s1 == [s EXCEPT !.this.trackableHeight = trackableHeight,
                        !.this.extrapolateFactor =
                            Div(Sub(totalHeight, availableHeight), trackableHeight)]
    IN  ScrollableScrollTo(SetHeight(s1, trackerHeight), TopOf(s.this, scrollY))

\* a variant of line 173 that fills the current slot only while it is empty
UpdatePagesAfterCurrent_keep(s, page, scrollY, p) ==
    LET s1 == IF s.this.currentPage = Undefined
              THEN [s EXCEPT !.this.currentPage = p] ELSE s
    IN  IF s1.this.currentPage = Undefined THEN Throw(s1, "TypeError")
        ELSE LET s2 == [s1 EXCEPT !.this.startPosition = s1.this.currentPage.startPosition]
             IN  UpdatePagesNext(UpdateGeometry(FillContent(s2), scrollY), page, scrollY)

\* updatePages, lines 173-190 after the await of line 173
UpdatePagesAfterCurrent(s, page, scrollY, p) ==
    LET s1 == [s EXCEPT !.this.currentPage = p]
    IN  IF p = Undefined THEN Throw(s1, "TypeError")
        ELSE LET s2 == [s1 EXCEPT !.this.startPosition = p.startPosition]
             IN  UpdatePagesNext(UpdateGeometry(FillContent(s2), scrollY), page, scrollY)

\* updatePages
UpdatePages(s, page, scrollY) ==
    LET r == RequestPageIfExists(s, page)
    IN  IF r.exists
        THEN Await(r.s, "updatePages", "current", page, scrollY, r.request)
        ELSE UpdatePagesAfterCurrent(r.s, page, scrollY, r.returned)

----------------------------------------------------------------------------
(* scrollTo *)

\* Math.floor(scrollY / (this.overlappingElements * this.rowHeight))
PageNumberByScroll(t, scrollY) ==
    Floor(Div(scrollY, Mul(Num(overlappingElements), Num(t.rowHeight))))

\* this.startPosition / this.overlappingElements
PageNumberByPage(t) == Div(Num(t.startPosition), Num(overlappingElements))

\* the branch scrollTo takes, lines 125, 130-133, 147-150, 164
ScrollCase(t, scrollY) ==
    LET pageNumberByScroll == PageNumberByScroll(t, scrollY)
        pageNumberByPage == PageNumberByPage(t)
    IN  IF Eq(pageNumberByPage, pageNumberByScroll) THEN "same"
        ELSE IF Eq(Add(pageNumberByPage, Num(1)), pageNumberByScroll)
                /\ t.nextPage # Undefined THEN "forward"
        ELSE IF Eq(Sub(pageNumberByPage, Num(1)), pageNumberByScroll)
                /\ t.previousPage # Undefined THEN "backward"
        ELSE "jump"

\* a variant of lines 138-146 without line 146: the rows are not painted
ScrollToAfterNext_unpainted(s, scrollY, p) ==
    LET s1 == [s EXCEPT !.this.nextPage = p]
    IN  Return(ScrollableScrollTo(s1, TopOf(s1.this, scrollY)))

\* scrollTo, lines 138-146 after the await
ScrollToAfterNext(s, scrollY, p) ==
    LET s1 == [s EXCEPT !.this.nextPage = p]
    IN  Return(FillContent(ScrollableScrollTo(s1, TopOf(s1.this, scrollY))))

\* a variant of line 139 that asks for the target page itself
ForwardRequest_same(pageNumberByScroll) == pageNumberByScroll

\* the page scrollTo asks for when it slides forward, line 139
ForwardRequest(pageNumberByScroll) == Add(pageNumberByScroll, Num(1))

\* a variant of lines 134-140 without line 137: startPosition is left as it is
ScrollToForward_stale(s, scrollY) ==
    LET s1 == [s EXCEPT !.this.previousPage = s.this.currentPage,
                        !.this.currentPage = s.this.nextPage]
        pageNumberByScroll == PageNumberByScroll(s.this, scrollY)
        r == RequestPageIfExists(s1, ForwardRequest(pageNumberByScroll))
    IN  IF r.exists
        THEN Await(r.s, "scrollTo", "next", pageNumberByScroll, scrollY, r.request)
        ELSE ScrollToAfterNext(r.s, scrollY, r.returned)

\* scrollTo, lines 134-140
ScrollToForward(s, scrollY) ==
    LET s1 == [s EXCEPT !.this.previousPage = s.this.currentPage,
                        !.this.currentPage = s.this.nextPage,
                        !.this.startPosition = s.this.nextPage.startPosition]
        pageNumberByScroll == PageNumberByScroll(s.this, scrollY)
        r == RequestPageIfExists(s1, ForwardRequest(pageNumberByScroll))
    IN  IF r.exists
        THEN Await(r.s, "scrollTo", "next", pageNumberByScroll, scrollY, r.request)
        ELSE ScrollToAfterNext(r.s, scrollY, r.returned)

\* scrollTo, lines 155-163 after the await
ScrollToAfterPrevious(s, scrollY, p) ==
    LET s1 == [s EXCEPT !.this.previousPage = p]
    IN  Return(FillContent(ScrollableScrollTo(s1, TopOf(s1.this, scrollY))))

\* the page scrollTo asks for when it slides backward, line 156
BackwardRequest(pageNumberByScroll) == pageNumberByScroll

\* scrollTo, lines 151-157
ScrollToBackward(s, scrollY) ==
    LET s1 == [s EXCEPT !.this.nextPage = s.this.currentPage,
                        !.this.currentPage = s.this.previousPage,
                        !.this.startPosition = s.this.previousPage.startPosition]
        pageNumberByScroll == PageNumberByScroll(s.this, scrollY)
        r == RequestPageIfExists(s1, BackwardRequest(pageNumberByScroll))
    IN  IF r.exists
        THEN Await(r.s, "scrollTo", "previous", pageNumberByScroll, scrollY, r.request)
        ELSE ScrollToAfterPrevious(r.s, scrollY, r.returned)

\* a variant of lines 125-129 that reloads the pages of the target
ScrollToSame_refetch(s, scrollY) ==
    UpdatePages(s, PageNumberByScroll(s.this, scrollY), scrollY)

\* scrollTo, lines 126-129
ScrollToSame(s, scrollY) == Return(ScrollableScrollTo(s, TopOf(s.this, scrollY)))

\* scrollTo
ScrollTo(s, scrollY) ==
    LET case == ScrollCase(s.this, scrollY)
    IN  IF case = "same" THEN ScrollToSame(s, scrollY)
        ELSE IF case = "forward" THEN ScrollToForward(s, scrollY)
        ELSE IF case = "backward" THEN ScrollToBackward(s, scrollY)
        ELSE UpdatePages(s, PageNumberByScroll(s.this, scrollY), scrollY)

\* an async call continues with the page p its await yields
Resume(call, s, p) ==
    LET s1 == PageArrived(s, call.request, p)
    IN  IF call.fn = "updatePages"
        THEN IF call.pc = "current"
             THEN UpdatePagesAfterCurrent(s1, call.page, call.scrollY, p)
             ELSE IF call.pc = "next"
             THEN UpdatePagesAfterNext(s1, call.page, call.scrollY, p)
             ELSE UpdatePagesAfterPrevious(s1, p)
        ELSE IF call.pc = "next"
             THEN ScrollToAfterNext(s1, call.scrollY, p)
             ELSE ScrollToAfterPrevious(s1, call.scrollY, p)

----------------------------------------------------------------------------
(* The event handlers, up to their call of scrollTo *)

\* onTrackerMove, lines 86-90: newMargin and scrollY
TrackerMove(t, pageY) ==
    LET m0 == Add(Num(pageY - t.trackerY), t.lastMargin)
        m1 == IF Lt(m0, Num(0)) THEN Num(0) ELSE m0
        newMargin == IF Ge(m1, t.trackableHeight) THEN t.trackableHeight ELSE m1
    IN  [newMargin |-> newMargin, scrollY |-> Mul(t.extrapolateFactor, newMargin)]

\* onScrollWheel, lines 95-106: the delta in content pixels
WheelDelta(s, deltaMode, deltaY) ==
    IF deltaMode = DOM_DELTA_LINE THEN Num(deltaY * s.this.rowHeight)
    ELSE IF deltaMode = DOM_DELTA_PAGE THEN Num(deltaY * s.dom.clientHeight)
    ELSE Num(deltaY)

\* onScrollWheel, lines 108-114: lastMargin and scrollY
ScrollWheel(s, deltaMode, deltaY) ==
    LET deltaMargin == Div(WheelDelta(s, deltaMode, deltaY), s.this.extrapolateFactor)
        m0 == Add(deltaMargin, s.this.lastMargin)
        m1 == IF Lt(m0, Num(0)) THEN Num(0) ELSE m0
        lastMargin == IF Ge(m1, s.this.trackableHeight) THEN s.this.trackableHeight ELSE m1
    IN  [lastMargin |-> lastMargin, scrollY |-> Mul(s.this.extrapolateFactor, lastMargin)]

----------------------------------------------------------------------------
(* The state after the constructor, line 263 *)

\* new ListItemImpl(92345), line 264
DummyEntry == 92345

\* tracker.style.height holds no length until updatePages sets one: NaN
NoLength == NaN

\* `last` when the task called no async method
NoCall == [fn |-> "none"]

Init ==
    /\ this = [previousPage |-> Undefined, currentPage |-> Undefined,
               nextPage |-> Undefined, numVisibleItems |-> Num(0), trackerY |-> 0,
               extrapolateFactor |-> Num(0), trackableHeight |-> Num(0),
               lastMargin |-> Num(0), rowHeight |-> 0, startPosition |-> 0,
               numTotalItems |-> 0]
    /\ dom \in {[clientHeight |-> h, content |-> Run(0, 0), marginTop |-> Num(0),
                 height |-> NoLength, scrollTop |-> Num(0), listeners |-> FALSE]
                : h \in ClientHeights}
    /\ totalNumberItems \in Totals
    /\ calls = <<>>
    /\ initialize = "new"
    /\ hung = FALSE
    /\ events = 0
    /\ overlaps = 0
    /\ last = [op |-> "constructor", log |-> <<>>, call |-> NoCall, out |-> "return",
               promise |-> "none"]
    /\ pressed = FALSE
    /\ failed = FALSE

----------------------------------------------------------------------------
(* Tasks *)

\* the state a task starts in
Start == [this |-> this, dom |-> dom, log |-> <<>>]

\* the window and the cached total, as an async call finds them
Before(t) ==
    [previousPage |-> t.previousPage, currentPage |-> t.currentPage,
     nextPage |-> t.nextPage, numTotalItems |-> t.numTotalItems,
     startPosition |-> t.startPosition]

\* the record of an async call that awaits a fetch: where it stands (fn, pc, its
\* arguments page and scrollY), the fetch (request, and result: what getPage will
\* resolve it to), and how it was called: by which operation (caller, case), in
\* which state (before), and whether no other call ran since it began (alone)
Call(out, caller, case, before, alone, total) ==
    [fn |-> out.fn, pc |-> out.pc, page |-> out.page, scrollY |-> out.scrollY,
     request |-> out.request,
     result |-> GetPage(out.request.startPosition, out.request.numberItems, total),
     caller |-> caller, case |-> case, before |-> before, alone |-> alone]

\* the promise of the operation (initialize or scrollTo) that ran to `out`:
\* updatePages is called and not awaited (lines 69, 166), so the operation is
\* fulfilled whatever becomes of updatePages
CallerPromise(out) ==
    IF out.kind = "await" /\ out.fn = "scrollTo" THEN "pending" ELSE "fulfilled"

\* the calls in flight, once another call has begun
Joined(cs) == [i \in 1..Len(cs) |-> [cs[i] EXCEPT !.alone = FALSE]]

Remove(cs, i) == [j \in 1..(Len(cs) - 1) |-> IF j < i THEN cs[j] ELSE cs[j + 1]]

\* a task that began an operation ends: r is how the operation ran
Began(op, r, caller, case, page, scrollY) ==
    LET call == Call(r.out, caller, case, Before(this),
                     calls = <<>> /\ initialize # "probing", totalNumberItems)
        loops == GetPageLoops(r.out.request.startPosition, r.out.request.numberItems,
                              totalNumberItems)
        overlap == case # "same" /\ calls # <<>>
    IN  /\ overlap => overlaps < MaxOverlaps
        /\ overlaps' = IF overlap THEN overlaps + 1 ELSE overlaps
        /\ this' = r.s.this
        /\ dom' = r.s.dom
        /\ calls' = IF r.out.kind = "await" THEN Append(Joined(calls), call)
                    ELSE Joined(calls)
        /\ hung' = (r.out.kind = "await" /\ loops)
        /\ last' = [op |-> op, log |-> r.s.log,
                    call |-> IF r.out.kind = "await" THEN call
                             ELSE [fn |-> IF case \in {"jump", "initialize"}
                                          THEN "updatePages" ELSE "scrollTo",
                                   page |-> page, scrollY |-> scrollY,
                                   caller |-> caller, case |-> case,
                                   before |-> Before(this),
                                   alone |-> (calls = <<>> /\ initialize # "probing")],
                    out |-> r.out.kind, promise |-> CallerPromise(r.out)]

\* model.initialize(...), lines 60-65 up to the await
Initialize ==
    /\ ~hung /\ initialize = "new"
    /\ initialize' = "probing"
    /\ dom' = [dom EXCEPT !.content = Run(DummyEntry, 1)]
    /\ last' = [op |-> "initialize", log |-> <<>>, call |-> NoCall, out |-> "await",
                promise |-> "pending"]
    /\ UNCHANGED <<this, totalNumberItems, calls, hung, events, overlaps, pressed, failed>>

\* the animation frame of calculateEntryHeight, lines 197-200, and the rest of
\* initialize, lines 65-69: elem.clientHeight is height
ProbeResolve(height) ==
    /\ ~hung /\ initialize = "probing"
    /\ LET availableHeight == Num(dom.clientHeight)
           s == [Start EXCEPT
                   !.dom.content = Run(0, 0),
                   !.this.rowHeight = height,
                   !.this.numVisibleItems = Ceil(Div(availableHeight, Num(height)))]
       IN  Began("ProbeResolve", UpdatePages(s, Num(0), Num(0)), "initialize",
                 "initialize", Num(0), Num(0))
    /\ initialize' = "fulfilled"
    /\ UNCHANGED <<totalNumberItems, events, pressed, failed>>

\* pointerdown on the tracker
OnTrackerDown(pageY) ==
    /\ ~hung /\ initialize # "new" /\ events < MaxEvents
    /\ this' = [this EXCEPT !.trackerY = pageY, !.lastMargin = dom.marginTop]
    /\ dom' = [dom EXCEPT !.listeners = TRUE]
    /\ pressed' = TRUE
    /\ events' = events + 1
    /\ last' = [op |-> "onTrackerDown", log |-> <<>>, call |-> NoCall, out |-> "return",
                promise |-> "none"]
    /\ UNCHANGED <<totalNumberItems, calls, initialize, hung, overlaps, failed>>

\* pointerup on the window
OnTrackerUp ==
    /\ ~hung /\ dom.listeners /\ events < MaxEvents
    /\ dom' = [dom EXCEPT !.listeners = FALSE]
    /\ this' = [this EXCEPT !.lastMargin = dom.marginTop]
    /\ events' = events + 1
    /\ last' = [op |-> "onTrackerUp", log |-> <<>>, call |-> NoCall, out |-> "return",
                promise |-> "none"]
    /\ pressed' = FALSE
    /\ UNCHANGED <<totalNumberItems, calls, initialize, hung, overlaps, failed>>

\* pointermove on the window
OnTrackerMove(pageY) ==
    /\ ~hung /\ dom.listeners /\ events < MaxEvents
    /\ LET m == TrackerMove(this, pageY)
           s == SetMarginTop(Start, m.newMargin)
       IN  Began("onTrackerMove", ScrollTo(s, m.scrollY), "scrollTo",
                 ScrollCase(this, m.scrollY), PageNumberByScroll(this, m.scrollY),
                 m.scrollY)
    /\ events' = events + 1
    /\ UNCHANGED <<totalNumberItems, initialize, pressed, failed>>

\* wheel on the scrollable
OnScrollWheel(deltaMode, deltaY) ==
    /\ ~hung /\ initialize # "new" /\ events < MaxEvents
    /\ LET w == ScrollWheel(Start, deltaMode, deltaY)
           s == SetMarginTop([Start EXCEPT !.this.lastMargin = w.lastMargin],
                             w.lastMargin)
       IN  Began("onScrollWheel", ScrollTo(s, w.scrollY), "scrollTo",
                 ScrollCase(this, w.scrollY), PageNumberByScroll(this, w.scrollY),
                 w.scrollY)
    /\ events' = events + 1
    /\ UNCHANGED <<totalNumberItems, initialize, pressed, failed>>

\* the promise of the fetch of calls[i] resolves, line 284, and the call goes on
FetchResolve(i) ==
    /\ ~hung /\ calls[i].result # Never
    /\ LET call == calls[i]
           r == Resume(call, Start, call.result)
           next == [call EXCEPT !.pc = r.out.pc, !.request = r.out.request,
                      !.result = GetPage(r.out.request.startPosition,
                                         r.out.request.numberItems, totalNumberItems)]
       IN  /\ this' = r.s.this
           /\ dom' = r.s.dom
           /\ calls' = IF r.out.kind = "await" THEN [calls EXCEPT ![i] = next]
                       ELSE Remove(calls, i)
           /\ hung' = (r.out.kind = "await"
                       /\ GetPageLoops(r.out.request.startPosition,
                                       r.out.request.numberItems, totalNumberItems))
           /\ last' = [op |-> "FetchResolve", log |-> r.s.log, call |-> call,
                       out |-> r.out.kind,
                       promise |-> IF r.out.kind = "await" /\ call.fn = "scrollTo"
                                   THEN "pending" ELSE "fulfilled"]
    /\ UNCHANGED <<totalNumberItems, initialize, events, overlaps, pressed, failed>>

\* the promise of the fetch of calls[i] is rejected: the await of line 212
\* throws, and so do the awaits of requestPageIfExists in the call
FetchReject(i) ==
    /\ ~hung /\ events < MaxEvents
    /\ events' = events + 1
    /\ calls' = Remove(calls, i)
    /\ last' = [op |-> "FetchReject", log |-> <<>>, call |-> calls[i], out |-> "throw",
                promise |-> IF calls[i].fn = "scrollTo" THEN "rejected" ELSE "fulfilled"]
    /\ failed' = TRUE
    /\ UNCHANGED <<this, dom, totalNumberItems, initialize, hung, overlaps, pressed>>

\* the data source's total becomes total
TotalChanges(total) ==
    /\ ~hung /\ initialize # "new" /\ events < MaxEvents
    /\ total # totalNumberItems
    /\ totalNumberItems' = total
    /\ events' = events + 1
    /\ last' = [op |-> "TotalChanges", log |-> <<>>, call |-> NoCall, out |-> "return",
                promise |-> "none"]
    /\ UNCHANGED <<this, dom, calls, initialize, hung, overlaps, pressed, failed>>

\* pointercancel: the pointer that went down on the tracker is lost (the browser
\* takes the gesture over, the pointer leaves the device).  Lines 50-51 and
\* 75-76 register no listener for it, so no handler runs and no pointerup of
\* that pointer follows.
PointerCancel ==
    /\ ~hung /\ pressed /\ events < MaxEvents
    /\ pressed' = FALSE
    /\ events' = events + 1
    /\ last' = [op |-> "pointercancel", log |-> <<>>, call |-> NoCall, out |-> "return",
                promise |-> "none"]
    /\ UNCHANGED <<this, dom, totalNumberItems, calls, initialize, hung, overlaps, failed>>

Next ==
    \/ Initialize
    \/ \E height \in ProbeHeights : ProbeResolve(height)
    \/ \E pageY \in DownYs : OnTrackerDown(pageY)
    \/ OnTrackerUp
    \/ \E pageY \in PageYs : OnTrackerMove(pageY)
    \/ \E deltaMode \in DeltaModes, deltaY \in DeltaYs : OnScrollWheel(deltaMode, deltaY)
    \/ \E i \in 1..Len(calls) : FetchResolve(i)
    \/ \E i \in 1..Len(calls) : FetchReject(i)
    \/ \E total \in Totals : TotalChanges(total)
    \/ PointerCancel

Spec == Init /\ [][Next]_vars

\* the controller on a small scrollable
InitSmall ==
    /\ this = [previousPage |-> Undefined, currentPage |-> Undefined,
               nextPage |-> Undefined, numVisibleItems |-> Num(0), trackerY |-> 0,
               extrapolateFactor |-> Num(0), trackableHeight |-> Num(0),
               lastMargin |-> Num(0), rowHeight |-> 0, startPosition |-> 0,
               numTotalItems |-> 0]
    /\ dom \in {[clientHeight |-> h, content |-> Run(0, 0), marginTop |-> Num(0),
                 height |-> NoLength, scrollTop |-> Num(0), listeners |-> FALSE]
                : h \in SmallClientHeights}
    /\ totalNumberItems \in Totals
    /\ calls = <<>>
    /\ initialize = "new"
    /\ hung = FALSE
    /\ events = 0
    /\ overlaps = 0
    /\ last = [op |-> "constructor", log |-> <<>>, call |-> NoCall, out |-> "return",
               promise |-> "none"]
    /\ pressed = FALSE
    /\ failed = FALSE

SpecSmall == InitSmall /\ [][Next]_vars

----------------------------------------------------------------------------
(* Vocabulary of the properties *)

\* the entries of the latest task's log
LogEntries == {last.log[i] : i \in 1..Len(last.log)}

\* the calls of requestPageIfExists the latest task made, and those of them
\* that fetched; the pages that requestPageIfExists returned from a fetch
Requests == {e \in LogEntries : "fetch" \in DOMAIN e}
Fetches == {e \in Requests : e.fetch}
Returns == {e \in LogEntries : "fetch" \notin DOMAIN e}

\* pageIndex >= 0 and pageIndex * overlapStride <= numTotalItems, for a page
\* index that is a number <<n, d>> and a total that is an integer
ValidIndex(page, numTotalItems) ==
    /\ page[2] = 1
    /\ page[1] >= 0
    /\ page[1] * overlappingElements <= numTotalItems

\* the tracker is shown: its height is a length above 0
TrackerVisible == IsFinite(dom.height) /\ dom.height[1] > 0

\* C1: requestPageIfExists fetches exactly for the valid page indices, from
\* position pageIndex * overlapStride, and returns the page fetched, which starts
\* there; for every other index it returns absent without a fetch and leaves the
\* cached numTotalItems as it found it.
C1_RequestPageIfExists ==
    /\ \A e \in Requests :
          IF ValidIndex(e.page, e.numTotalItems)
          THEN e.fetch /\ e.startPosition = e.page[1] * overlappingElements
          ELSE ~e.fetch /\ e.returned = Undefined /\ e.left = e.numTotalItems
    /\ \A e \in Returns :
          e.returned.startPosition = e.page[1] * overlappingElements

\* a task in which requestPageIfExists returned a fetched page beyond the first
\* and then returned absent for an index that is not valid
C1_Witness ==
    /\ \E e \in Returns : e.returned.startPosition > 0
    /\ \E e \in Requests : ~e.fetch /\ ~ValidIndex(e.page, e.numTotalItems)

\* C2: every fetch asks for numVisibleItems + overlapStride items for page 0 and
\* for numVisibleItems + 2 * overlapStride items for a later page, from position
\* pageIndex * overlapStride; with 20 visible items initialization fetches
\* (0, 30) for current, then (10, 40) for next when page 1 exists, and nothing
\* for previous, which is absent when initialization ends.
C2_FetchCounts ==
    /\ \A e \in Fetches :
          /\ e.startPosition = e.page[1] * overlappingElements
          /\ e.numberItems =
                Add(this.numVisibleItems,
                    Num(IF e.page[1] = 0 THEN overlappingElements
                        ELSE 2 * overlappingElements))
    /\ (last.call.fn # "none" /\ last.call.caller = "initialize"
        /\ this.numVisibleItems = Num(20)) =>
          /\ \A e \in Fetches :
                \/ e.page = Num(0) /\ e.startPosition = 0 /\ e.numberItems = Num(30)
                \/ e.page = Num(1) /\ e.startPosition = 10 /\ e.numberItems = Num(40)
          /\ last.op = "ProbeResolve" => Fetches # {}
          /\ last.out = "return" => this.previousPage = Undefined

\* initialization has ended after it fetched page 1 for next
C2_Witness ==
    /\ last.call.fn # "none" /\ last.call.caller = "initialize"
    /\ last.out = "return"
    /\ this.numVisibleItems = Num(20)
    /\ this.nextPage # Undefined /\ this.nextPage.startPosition = 10
    /\ Len(Sequence(this.nextPage.items)) = 40

\* the latest task ended a slide (case "forward" or "backward") of a scrollTo
\* that no other call overlapped
SlideDone(case) ==
    /\ last.call.fn # "none" /\ last.call.caller = "scrollTo"
    /\ last.call.case = case /\ last.call.alone
    /\ last.out = "return"

\* slot holds the page of index page, or nothing when that index was not valid
\* for the total cached when the call began
HoldsPageAt(slot, page, numTotalItems) ==
    IF ValidIndex(page, numTotalItems)
    THEN slot # Undefined /\ slot.startPosition = page[1] * overlappingElements
    ELSE slot = Undefined

\* C3: a slide backward to targetPageIndex ends with next the old current page,
\* current the old previous page, and previous the page of index
\* targetPageIndex - 1, or absent when that index is not valid.
C3_SlideBackwardSymmetric ==
    SlideDone("backward") =>
        /\ this.nextPage = last.call.before.currentPage
        /\ this.currentPage = last.call.before.previousPage
        /\ HoldsPageAt(this.previousPage, Sub(last.call.page, Num(1)),
                       last.call.before.numTotalItems)

\* C4: a slide forward to targetPageIndex calls requestPageIfExists once, for
\* index targetPageIndex + 1, so it fetches at most once and never for the
\* current or the previous index; it ends with previous the old current page,
\* current the old next page and next the page of index targetPageIndex + 1, or
\* absent when that index is not valid.
C4_SlideForward ==
    /\ (last.call.fn # "none" /\ last.call.case = "forward") =>
          IF last.op \in {"onTrackerMove", "onScrollWheel"}
          THEN /\ Len(last.log) = 1
               /\ \A e \in Requests : e.page = Add(last.call.page, Num(1))
          ELSE Requests = {}
    /\ SlideDone("forward") =>
          /\ this.previousPage = last.call.before.currentPage
          /\ this.currentPage = last.call.before.nextPage
          /\ HoldsPageAt(this.nextPage, Add(last.call.page, Num(1)),
                         last.call.before.numTotalItems)

\* a slide forward has ended with the page it fetched in next
C4_Witness ==
    /\ SlideDone("forward") /\ last.op = "FetchResolve"
    /\ this.nextPage # Undefined /\ this.previousPage # Undefined

\* C5: a scrollTo whose target page is the current page makes no call of
\* requestPageIfExists, leaves previous, current, next, the cached total,
\* trackableHeight and extrapolateFactor as they are, and sets the scroll offset
\* to scrollY mod (overlapStride * rowHeight).
C5_SamePage ==
    [][(events' = events + 1 /\ last'.call.fn # "none" /\ last'.call.case = "same") =>
          /\ last'.log = <<>>
          /\ Len(calls') = Len(calls)
          /\ this'.previousPage = this.previousPage
          /\ this'.currentPage = this.currentPage
          /\ this'.nextPage = this.nextPage
          /\ this'.numTotalItems = this.numTotalItems
          /\ this'.startPosition = this.startPosition
          /\ this'.trackableHeight = this.trackableHeight
          /\ this'.extrapolateFactor = this.extrapolateFactor
          /\ dom'.scrollTop =
                Sub(last'.call.scrollY,
                    Mul(last'.call.page, Num(overlappingElements * this.rowHeight)))
          /\ Lt(dom'.scrollTop, Num(overlappingElements * this.rowHeight))
          /\ Ge(dom'.scrollTop, Num(0))]_vars

\* a scrollTo within the current page has set a scroll offset above 0
C5_Witness ==
    /\ last.call.fn # "none" /\ last.call.case = "same"
    /\ this.currentPage # Undefined
    /\ Lt(Num(0), dom.scrollTop)

\* C6: whenever the tracker is visible and no window update is in flight,
\* extrapolateFactor * trackableHeight = rowHeight * numTotalItems - viewportHeight
\* for the cached numTotalItems.
C6_GeometryTracksTotal ==
    (TrackerVisible /\ calls = <<>>) =>
        Mul(this.extrapolateFactor, this.trackableHeight)
            = Num(this.rowHeight * this.numTotalItems - dom.clientHeight)

\* what onTrackerMove submits when the tracker is dragged to trackableHeight
BottomScrollY ==
    TrackerMove([this EXCEPT !.trackerY = 0, !.lastMargin = this.trackableHeight], 0).scrollY

\* C7: once initialized and with the tracker visible, a drag of the tracker to
\* trackableHeight submits totalContentHeight - viewportHeight, and the page
\* index of that offset is valid for the cached numTotalItems.
C7_BottomIsValid ==
    (initialize = "fulfilled" /\ TrackerVisible) =>
        /\ BottomScrollY = Num(this.rowHeight * this.numTotalItems - dom.clientHeight)
        /\ ValidIndex(PageNumberByScroll(this, BottomScrollY), this.numTotalItems)

\* all content fits the viewport and the tracker is hidden
AllFits ==
    /\ initialize = "fulfilled" /\ this.rowHeight > 0
    /\ this.rowHeight * this.numTotalItems <= dom.clientHeight
    /\ dom.height = Num(0)

\* C8: when all content fits, a wheel or drag-move event fetches nothing and
\* leaves previous, current and next as they are.
C8_NoScrollingWhenAllFits ==
    [][(AllFits /\ last'.op \in {"onScrollWheel", "onTrackerMove"}
        /\ events' = events + 1) =>
          /\ \A i \in 1..Len(last'.log) : ~last'.log[i].fetch
          /\ this'.previousPage = this.previousPage
          /\ this'.currentPage = this.currentPage
          /\ this'.nextPage = this.nextPage]_vars

\* C9: when a fetch fails, the operation that caused it fails: initialize for a
\* fetch of initialization, the scrollTo call for a fetch of a slide or a jump.
C9_FailurePropagates ==
    last.op = "FetchReject" =>
        IF last.call.caller = "initialize" THEN initialize = "rejected"
        ELSE last.promise = "rejected"

\* C10: when the height probe measures 0, initialize fails with a configuration
\* error and fetches nothing; rowHeight 0 is not stored.
C10_ZeroRowHeightFailsFast ==
    /\ (last.op = "ProbeResolve" /\ last.call.page = Num(0) /\ Fetches # {}) =>
          this.rowHeight # 0
    /\ initialize = "fulfilled" => this.rowHeight # 0

\* C11: wheel and drag share one tracker offset: after a drag-move of an active
\* drag session, the offset that a wheel event would read and add its delta to
\* (lastMargin) is the offset the drag-move displayed, once initialized.
C11_SharedTrackerOffset ==
    (initialize = "fulfilled" /\ last.op = "onTrackerMove") =>
        this.lastMargin = dom.marginTop

\* C12: the pointermove and pointerup listeners of the window are registered
\* exactly while a drag session is active: from pointerdown on, and no longer
\* after the session ends, by pointerup or by a cancelled pointer.
C12_ListenersWhileDragging ==
    dom.listeners <=> pressed

\* the latest task ran lines 174-187 of updatePages: the fetch of the current
\* page came back, and the page was painted and the geometry computed from it
GeometryComputed ==
    /\ last.op = "FetchResolve" /\ last.call.fn = "updatePages"
    /\ last.call.pc = "current" /\ this.currentPage = last.call.result

\* 0 when viewport >= total, otherwise max(MIN_TRACKER_HEIGHT,
\* viewport * viewport / total), for heights that are integers >= 0
TrackerHeightOf(total, viewport) ==
    IF viewport >= total THEN Num(0)
    ELSE IF viewport * viewport >= MIN_TRACKER_HEIGHT * total
         THEN Norm(viewport * viewport, total)
         ELSE Num(MIN_TRACKER_HEIGHT)

\* C13: calculateTrackerHeight yields 0 whenever viewportHeight >=
\* rowHeight * numTotalItems, and otherwise max(MIN_TRACKER_HEIGHT,
\* viewportHeight * viewportHeight / totalContentHeight).
C13_TrackerHeight ==
    GeometryComputed =>
        CalculateTrackerHeight([this |-> this, dom |-> dom])
            = TrackerHeightOf(this.rowHeight * this.currentPage.numTotalItems,
                              dom.clientHeight)

\* the latest task ended a scrollTo call that ran one at a time with all calls
\* before it, with no fetch failed so far, that found a current page and whose
\* target page index was valid for the total cached when it began
TargetResolved ==
    /\ last.call.fn # "none" /\ last.call.caller = "scrollTo"
    /\ last.out = "return"
    /\ last.call.alone /\ overlaps = 0 /\ ~failed
    /\ last.call.before.currentPage # Undefined
    /\ ValidIndex(last.call.page, last.call.before.numTotalItems)

\* C14: when scrollTo calls run one at a time, no fetch fails and the target
\* page index is valid, the call ends with the current page at the target index:
\* current.startPosition / overlapStride = floor(scrollY / (overlapStride *
\* rowHeight)).
C14_ReachesTarget ==
    TargetResolved =>
        /\ this.currentPage # Undefined
        /\ this.currentPage.startPosition = last.call.page[1] * overlappingElements

\* C15: whenever no fetch is pending (and none has failed), a resident next page
\* starts overlapStride after the current page and a resident previous page
\* overlapStride before it, whatever the interleaving of the calls was.
C15_WindowAdjacent ==
    (calls = <<>> /\ ~failed /\ this.currentPage # Undefined) =>
        /\ this.nextPage # Undefined =>
              this.nextPage.startPosition
                  = this.currentPage.startPosition + overlappingElements
        /\ this.previousPage # Undefined =>
              this.previousPage.startPosition
                  = this.currentPage.startPosition - overlappingElements

\* the latest task continued an updatePages call with the answer to its fetch
\* of the current page
CurrentArrived ==
    /\ last.op = "FetchResolve" /\ last.call.fn = "updatePages"
    /\ last.call.pc = "current"

\* C16: when the fetch of the current page of a jump (or of initialization)
\* completes, the current slot holds the page it fetched, whether or not another
\* jump was submitted before or after it and has its page already: of two
\* jumps in flight, the one whose fetch completes later has the current slot.
C16_LaterFetchWins ==
    CurrentArrived =>
        /\ this.currentPage = last.call.result
        /\ this.startPosition = last.call.result.startPosition

\* two jumps to different pages are in flight; the fetch of the one submitted
\* first has completed after that of the one submitted second, and its page is
\* the current page
C16_Witness ==
    /\ CurrentArrived /\ last.call.case = "jump"
    /\ \E i, j \in DOMAIN calls :
          /\ i < j
          /\ calls[i].case = "jump" /\ calls[i].page = last.call.page
          /\ calls[i].pc = "next"
          /\ calls[j].case = "jump" /\ calls[j].page # last.call.page
          /\ calls[j].pc # "current"
    /\ this.currentPage.startPosition = last.call.page[1] * overlappingElements

\* entry e of a task's log is the call of requestPageIfExists for page, and the
\* return of the page fetched for page
IsRequest(e, page) == "fetch" \in DOMAIN e /\ e.page = page
IsReturn(e, page) == "fetch" \notin DOMAIN e /\ e.page = page

\* the log is made of the entries that the tests of `tests` accept, in their
\* order, up to the first fetch, where the task must stop
InOrder(log, tests) ==
    /\ Len(log) >= 1 /\ Len(log) <= Len(tests)
    /\ \A i \in 1..Len(log) :
          /\ tests[i][1] = "request" => IsRequest(log[i], tests[i][2])
          /\ tests[i][1] = "return" => IsReturn(log[i], tests[i][2])
          /\ ("fetch" \in DOMAIN log[i] /\ log[i].fetch) => i = Len(log)
    /\ Len(log) < Len(tests) =>
          /\ "fetch" \in DOMAIN log[Len(log)] /\ log[Len(log)].fetch
          /\ last.out = "await"

\* C17: a resync (updatePages, for initialization or a jump to page) asks for
\* page, then page + 1, then page - 1, each only in the task in which the
\* answer to the one before arrived, so that it never has two fetches
\* outstanding; when it asks for page + 1 the rows of the current page are
\* painted and the geometry is computed from its total.
C17_ResyncOrder ==
    (last.call.fn = "updatePages" /\ last.op # "FetchReject") =>
        LET page == last.call.page
            next == Add(page, Num(1))
            previous == Sub(page, Num(1))
        IN  IF last.op # "FetchResolve"
            THEN /\ Len(last.log) = 1 /\ IsRequest(last.log[1], page)
                 /\ last.out = (IF last.log[1].fetch THEN "await" ELSE "throw")
            ELSE IF last.call.pc = "current"
            THEN /\ InOrder(last.log, << <<"return", page>>, <<"request", next>>,
                                         <<"request", previous>> >>)
                 /\ dom.content = last.call.result.items
                 /\ LET total == this.rowHeight * last.call.result.numTotalItems
                        viewport == dom.clientHeight
                        trackerHeight == TrackerHeightOf(total, viewport)
                    IN  /\ dom.height = trackerHeight
                        /\ this.trackableHeight = Sub(Num(viewport), trackerHeight)
                        /\ this.extrapolateFactor =
                              Div(Num(total - viewport), this.trackableHeight)
            ELSE IF last.call.pc = "next"
            THEN InOrder(last.log, << <<"return", next>>, <<"request", previous>> >>)
            ELSE InOrder(last.log, << <<"return", previous>> >>)

\* a jump got the answer to its fetch of next and awaits its fetch of previous
C17_Witness ==
    /\ last.op = "FetchResolve" /\ last.call.fn = "updatePages"
    /\ last.call.case = "jump" /\ last.call.pc = "next"
    /\ last.out = "await" /\ Len(last.log) = 2
    /\ last.log[2].fetch /\ last.log[2].page = Sub(last.call.page, Num(1))

\* C18: in every state in which the current page is resident, calls in flight
\* or not, startPosition is the startPosition of the current page and a
\* multiple of overlapStride that is not negative.
C18_PageIndex ==
    this.currentPage # Undefined =>
        /\ this.startPosition = this.currentPage.startPosition
        /\ this.startPosition >= 0
        /\ this.startPosition % overlappingElements = 0

\* a current page beyond the first while two calls that interleave are in flight
C18_Witness ==
    /\ this.currentPage # Undefined /\ this.startPosition > 0
    /\ Len(calls) = 2 /\ overlaps > 0

\* C19: once initialized (with rows and a viewport higher than 0), after every
\* drag-move and every wheel event the offset of the tracker (its margin-top)
\* is at least 0 and at most trackableHeight.
C19_OffsetInRange ==
    (/\ initialize = "fulfilled" /\ this.rowHeight > 0 /\ dom.clientHeight > 0
     /\ last.op \in {"onTrackerMove", "onScrollWheel"}) =>
        /\ Ge(dom.marginTop, Num(0))
        /\ Le(dom.marginTop, this.trackableHeight)

\* C20: whenever no call is in flight, no fetch has failed and the current page
\* is resident, the rows of the content are the items of the current page, in
\* their order, whatever the interleaving of the calls was.
C20_RowsMatchCurrent ==
    (calls = <<>> /\ ~failed /\ initialize = "fulfilled"
     /\ this.currentPage # Undefined) =>
        Sequence(dom.content) = Sequence(this.currentPage.items)

\* calls that interleaved have ended, and the rows are those of a current page
\* beyond the first
C20_Witness ==
    /\ calls = <<>> /\ ~failed /\ overlaps > 0
    /\ this.currentPage # Undefined /\ this.currentPage.startPosition > 0
    /\ Sequence(dom.content) = Sequence(this.currentPage.items)
    /\ Len(Sequence(dom.content)) > 0

====
